---- MODULE Spec2Model ----
(***************************************************************************)
(* Model of the GTA transit core: the three agency normalizers of          *)
(* src/components/fetch/adapters.ts and the IndexedDB stop store           *)
(* (gtaStopsDb.ts).                                                        *)
(*                                                                         *)
(* JavaScript values are modelled as follows.                              *)
(*   number  : [nan, v]   NaN is [nan |-> TRUE, v |-> 0]                   *)
(*   string  : a TLA+ string where no character is inspected, a sequence   *)
(*             of one-character strings where the code parses it           *)
(*   missing : the string UNDEF (property absent / undefined)              *)
(*   T | T[] : [shape, items] with shape "absent", "one" or "many"         *)
(***************************************************************************)
EXTENDS Integers, Sequences, FiniteSets, TLC

VARIABLES goIn, goNow, goOut, ttcIn, ttcOut, subIn, subOut,
          dbPromise, stops, call, query, results, saved,
          pc, job, db, tx, openCount

vars == <<goIn, goNow, goOut, ttcIn, ttcOut, subIn, subOut,
          dbPromise, stops, call, query, results, saved,
          pc, job, db, tx, openCount>>

goVars == <<goIn, goNow, goOut>>
ttcVars == <<ttcIn, ttcOut>>
subVars == <<subIn, subOut>>
\* the callers of the stop store, seen at their suspension points
concVars == <<pc, job, db, tx, openCount>>
dbVars == <<dbPromise, stops, call, query, results, saved, concVars>>
\* what the operations of the stop store leave alone
restVars == <<goVars, ttcVars, subVars, concVars>>
\* what a step of a suspended caller leaves alone
callVars == <<call, query, results, saved, goVars, ttcVars, subVars>>

(***************************************************************************)
(* Bounds                                                                  *)
(***************************************************************************)
MaxServices == 2
MaxList == 2
MaxItems == 2
MaxStrLen == 3
MaxTagLen == 3

(***************************************************************************)
(* JavaScript numbers, strings and truthiness                              *)
(***************************************************************************)
UNDEF == "undefined"

NaN == [nan |-> TRUE, v |-> 0]

Num(n) == [nan |-> FALSE, v |-> n]

\* a || b on strings: "" and undefined are falsy
StrOr(a, b) == IF a \notin {"", UNDEF} THEN a ELSE b

\* all sequences over S of length 0..n
SeqUpTo(S, n) == UNION {[1..k -> S] : k \in 0..n}

\* the result of a call: a returned list, or a thrown TypeError
Returned(list) == [status |-> "ok", out |-> list]

Thrown == [status |-> "throw", out |-> <<>>]

NotCalled == [status |-> "none", out |-> <<>>]

(***************************************************************************)
(* normalizeGoTransit                                                      *)
(***************************************************************************)
\* the clock: milliseconds since the epoch when the call starts
ClockStart == 6000000

\* new Date() is read once per entry; the clock may advance between reads
ClockTick == 30000

\* a timestamp field of the payload: a parseable date string denoting the
\* instant ms ("ts"), an unparseable non-empty string ("bad"), the empty
\* string or a missing property ("empty"), or JSON null ("null")
TimeTs(ms) == [k |-> "ts", ms |-> ms]

TimeBad == [k |-> "bad", ms |-> 0]

TimeEmpty == [k |-> "empty", ms |-> 0]

TimeNull == [k |-> "null", ms |-> 0]

\* new Date(x).getTime(): NaN for an invalid date; new Date(null) is the epoch
DateGetTime(f) ==
    CASE f.k = "ts" -> Num(f.ms)
      [] f.k = "null" -> Num(0)
      [] OTHER -> NaN

\* truthiness of a timestamp field: "" / undefined / null are falsy
TimeTruthy(f) == f.k \in {"ts", "bad"}

\* Math.round(x / 60000) for a millisecond difference x: nearest integer,
\* halves towards +infinity
RoundMinutes(x) == IF x.nan THEN NaN ELSE Num((x.v + 30000) \div 60000)

\* a variant of MaxZero that does not clamp
MaxZeroUnclamped(x) == x

\* Math.max(0, x): NaN when x is NaN
MaxZero(x) == IF x.nan THEN NaN ELSE IF x.v < 0 THEN Num(0) ELSE x

\* a.getTime() - b for numbers
NumSub(a, b) == IF a.nan \/ b.nan THEN NaN ELSE Num(a.v - b.v)

\* a variant of DepartureTime that ignores the Computed flag
DepartureTimeIgnoringFlag(service) ==
    IF TimeTruthy(service.ComputedDepartureTime)
    THEN DateGetTime(service.ComputedDepartureTime)
    ELSE DateGetTime(service.ScheduledDepartureTime)

\* the departure time one entry is measured by
DepartureTime(service) ==
    LET scheduledTime == DateGetTime(service.ScheduledDepartureTime)
        computedTime == IF TimeTruthy(service.ComputedDepartureTime)
                        THEN DateGetTime(service.ComputedDepartureTime)
                        ELSE scheduledTime
    IN  IF service.Computed = 1 THEN computedTime ELSE scheduledTime

\* a variant of IsGhost with the flag inverted
IsGhostInverted(service) == service.Computed = 1

\* service.Computed === 0
IsGhost(service) == service.Computed = 0

\* the body of services.map(...) for one entry, with the clock reading now
GoPrediction(service, now) ==
    [line |-> StrOr(service.LineName, service.LineCode),
     destination |-> service.DirectionName,
     timeMinutes |-> MaxZero(RoundMinutes(NumSub(DepartureTime(service), Num(now)))),
     isGhost |-> IsGhost(service),
     vehicleId |-> StrOr(service.TrainNumber, StrOr(service.BusNumber, UNDEF)),
     platform |-> StrOr(service.ActualPlatform, StrOr(service.ScheduledPlatform, UNDEF))]

\* apiResponse.data?.NextService passes the guard only when it is an array
ServicesOf(apiResponse) ==
    IF apiResponse.data = "present" /\ apiResponse.NextService.shape = "many"
    THEN apiResponse.NextService.items
    ELSE <<>>

\* normalizeGoTransit(apiResponse), nows[i] being the clock read for entry i
GoTransitResult(apiResponse, nows) ==
    IF apiResponse.env = "undefined" THEN Thrown
    ELSE LET services == ServicesOf(apiResponse)
         IN  Returned([i \in 1..Len(services) |-> GoPrediction(services[i], nows[i])])

\* ---- inputs ----
GoTimes == {TimeTs(ClockStart - 90000), TimeTs(ClockStart + 30000),
            TimeTs(ClockStart + 300000), TimeBad, TimeEmpty, TimeNull}

GoService(sched, comp, flag, lineName, train, bus, actual) ==
    [LineCode |-> "LW", LineName |-> lineName, DirectionName |-> "Union Station",
     ScheduledDepartureTime |-> sched, ComputedDepartureTime |-> comp,
     ScheduledPlatform |-> "4", ActualPlatform |-> actual,
     BusNumber |-> bus, TrainNumber |-> train, Computed |-> flag]

\* entries that vary the two timestamps and the flag
GoTimedServices ==
    {GoService(s, c, f, "Lakeshore West", "T1", UNDEF, "") :
        s \in GoTimes, c \in GoTimes, f \in {0, 1, 2}}

\* entries that vary the labels
GoLabelledServices ==
    {GoService(TimeTs(ClockStart + 300000), TimeEmpty, 0, n, t, b, a) :
        n \in {"Lakeshore West", ""}, t \in {"T1", UNDEF}, b \in {"B7", UNDEF},
        a \in {"5", ""}}

GoSampleServices ==
    {GoService(TimeTs(ClockStart + 300000), TimeTs(ClockStart - 90000), 0,
               "Lakeshore West", "T1", UNDEF, ""),
     GoService(TimeTs(ClockStart + 300000), TimeTs(ClockStart - 90000), 1,
               "Lakeshore West", UNDEF, "B7", "5"),
     GoService(TimeBad, TimeEmpty, 1, "", UNDEF, UNDEF, "")}

GoEnvelope(env, data, shape, items) ==
    [env |-> env, data |-> data, NextService |-> [shape |-> shape, items |-> items]]

GoInputs ==
    {GoEnvelope("undefined", "absent", "absent", <<>>),
     GoEnvelope("object", "absent", "absent", <<>>),
     GoEnvelope("object", "present", "absent", <<>>),
     GoEnvelope("object", "present", "nonarray", <<>>)}
    \cup {GoEnvelope("object", "present", "many", <<s>>) :
            s \in GoTimedServices \cup GoLabelledServices}
    \cup {GoEnvelope("object", "present", "many", l) :
            l \in SeqUpTo(GoSampleServices, MaxServices)}

\* clock readings of one call: non-decreasing, one per entry
ClockReads(n) ==
    {r \in [1..n -> {ClockStart, ClockStart + ClockTick}] :
        \A i \in 1..n : \A j \in i..n : r[i] <= r[j]}

GoIdle == GoEnvelope("undefined", "absent", "absent", <<>>)

InitGo ==
    /\ goIn \in GoInputs
    /\ goNow = <<>>
    /\ goOut = NotCalled

NormalizeGoTransit ==
    /\ goOut.status = "none"
    /\ \E nows \in ClockReads(Len(ServicesOf(goIn))) :
          /\ goNow' = nows
          /\ goOut' = GoTransitResult(goIn, nows)
    /\ UNCHANGED <<goIn, ttcVars, subVars, dbVars>>

(***************************************************************************)
(* Character strings: String.prototype.trim / split, parseInt, RegExp      *)
(***************************************************************************)
Digits == <<"0", "1", "2", "3", "4", "5", "6", "7", "8", "9">>

UpperCase == <<"A", "B", "C", "D", "E", "F", "G", "H", "I", "J", "K", "L", "M",
               "N", "O", "P", "Q", "R", "S", "T", "U", "V", "W", "X", "Y", "Z">>

LowerCase == <<"a", "b", "c", "d", "e", "f", "g", "h", "i", "j", "k", "l", "m",
               "n", "o", "p", "q", "r", "s", "t", "u", "v", "w", "x", "y", "z">>

Range(f) == {f[i] : i \in DOMAIN f}

IsDigit(c) == c \in Range(Digits)

DigitVal(c) == (CHOOSE i \in DOMAIN Digits : Digits[i] = c) - 1

\* \w of a regular expression
IsWordChar(c) == c \in Range(Digits) \cup Range(UpperCase) \cup Range(LowerCase) \cup {"_"}

\* the white space trim() and parseInt skip
WhiteSpace == {" ", "\t", "\n", "\r"}

\* the characters . does not match
LineTerminators == {"\n", "\r"}

\* case folding of the i flag
ToLower(c) ==
    IF c \in Range(UpperCase)
    THEN LowerCase[CHOOSE i \in DOMAIN UpperCase : UpperCase[i] = c]
    ELSE c

\* an optional string property: present with characters s, or missing
Str(s) == [has |-> TRUE, s |-> s]

NoStr == [has |-> FALSE, s |-> <<>>]

\* !x for an optional string: missing and "" are falsy
StrFalsy(x) == ~x.has \/ x.s = <<>>

RECURSIVE TrimStart(_)
TrimStart(s) ==
    IF s # <<>> /\ Head(s) \in WhiteSpace THEN TrimStart(Tail(s)) ELSE s

RECURSIVE TrimEnd(_)
TrimEnd(s) ==
    IF s # <<>> /\ s[Len(s)] \in WhiteSpace THEN TrimEnd(SubSeq(s, 1, Len(s) - 1)) ELSE s

\* s.trim()
Trim(s) == TrimEnd(TrimStart(s))

\* s.split(','): the pieces between commas, always at least one
RECURSIVE Split(_)
Split(s) ==
    IF \A i \in 1..Len(s) : s[i] # ","
    THEN <<s>>
    ELSE LET i == CHOOSE k \in 1..Len(s) :
                      s[k] = "," /\ \A j \in 1..(k - 1) : s[j] # ","
         IN  <<SubSeq(s, 1, i - 1)>> \o Split(SubSeq(s, i + 1, Len(s)))

\* the longest prefix of s made of decimal digits
RECURSIVE DigitRun(_)
DigitRun(s) ==
    IF s # <<>> /\ IsDigit(Head(s)) THEN <<Head(s)>> \o DigitRun(Tail(s)) ELSE <<>>

\* the longest prefix of s made of word characters
RECURSIVE WordRun(_)
WordRun(s) ==
    IF s # <<>> /\ IsWordChar(Head(s)) THEN <<Head(s)>> \o WordRun(Tail(s)) ELSE <<>>

\* the value of a run of decimal digits
RECURSIVE DecimalValue(_)
DecimalValue(ds) ==
    IF ds = <<>> THEN 0
    ELSE 10 * DecimalValue(SubSeq(ds, 1, Len(ds) - 1)) + DigitVal(ds[Len(ds)])

\* parseInt(x, 10): leading white space, an optional sign, then the longest
\* run of digits; NaN when there is no digit (or x is missing)
ParseInt(x) ==
    LET t == TrimStart(x.s)
        signed == t # <<>> /\ Head(t) \in {"+", "-"}
        ds == DigitRun(IF signed THEN Tail(t) ELSE t)
    IN  IF ~x.has \/ ds = <<>> THEN NaN
        ELSE IF signed /\ Head(t) = "-" THEN Num(0 - DecimalValue(ds))
        ELSE Num(DecimalValue(ds))

\* String(n) for a natural number n
RECURSIVE DecimalString(_)
DecimalString(n) ==
    IF n < 10 THEN <<Digits[n + 1]>>
    ELSE DecimalString(n \div 10) \o <<Digits[(n % 10) + 1]>>

\* the result of String.prototype.match: null, or the first capture group
NoMatch == [matched |-> FALSE, group |-> <<>>]

Match(g) == [matched |-> TRUE, group |-> g]

\* x?.match(/^(\d+\w*)/)
MatchLine(x) ==
    LET ds == DigitRun(x.s)
    IN  IF ~x.has \/ ds = <<>> THEN NoMatch
        ELSE Match(ds \o WordRun(SubSeq(x.s, Len(ds) + 1, Len(x.s))))

\* whether /towards (.+)$/i matches s starting at position i
TowardsAt(s, i) ==
    LET word == <<"t", "o", "w", "a", "r", "d", "s", " ">>
    IN  /\ i + 8 <= Len(s)
        /\ \A k \in 1..8 : ToLower(s[i + k - 1]) = word[k]
        /\ \A k \in (i + 8)..Len(s) : s[k] \notin LineTerminators

\* x?.match(/towards (.+)$/i): the leftmost match
MatchTowards(x) ==
    IF ~x.has \/ \A i \in 1..Len(x.s) : ~TowardsAt(x.s, i) THEN NoMatch
    ELSE LET i == CHOOSE k \in 1..Len(x.s) :
                      TowardsAt(x.s, k) /\ \A j \in 1..(k - 1) : ~TowardsAt(x.s, j)
         IN  Match(SubSeq(x.s, i + 8, Len(x.s)))

\* a || b || '' on optional strings, as a string
StrOrEmpty(a, b) ==
    IF ~StrFalsy(a) THEN a.s ELSE IF ~StrFalsy(b) THEN b.s ELSE <<>>

\* all strings over the alphabet of length 0..n
Strs(alphabet, n) == SeqUpTo(alphabet, n)

RECURSIVE ConcatAll(_)
ConcatAll(ss) == IF ss = <<>> THEN <<>> ELSE Head(ss) \o ConcatAll(Tail(ss))

(***************************************************************************)
(* T | T[] fields of the TTC payload                                       *)
(***************************************************************************)
Absent == [shape |-> "absent", items |-> <<>>]

One(x) == [shape |-> "one", items |-> <<x>>]

Many(l) == [shape |-> "many", items |-> l]

\* a variant of ToArray that iterates nothing for a bare object
ToArrayOfListsOnly(x) == IF x.shape = "many" THEN x.items ELSE <<>>

\* Array.isArray(x) ? x : [x]
ToArray(x) == IF x.shape = "many" THEN x.items ELSE <<x.items[1]>>

OneOrMany(S, L) == {Absent} \cup {One(x) : x \in S} \cup {Many(l) : l \in L}

(***************************************************************************)
(* normalizeTtc                                                            *)
(***************************************************************************)
\* a variant of TtcLine without the fall-back to the raw route tag
TtcLineWithoutTag(pred, dir) ==
    LET titleMatch == MatchLine(dir.title)
        lineMatch == IF titleMatch.matched THEN titleMatch ELSE MatchLine(pred.routeTag)
    IN  IF lineMatch.matched THEN lineMatch.group ELSE <<>>

\* lineMatch?.[1] || pred.routeTag || ''
TtcLine(pred, dir) ==
    LET titleMatch == MatchLine(dir.title)
        lineMatch == IF titleMatch.matched THEN titleMatch ELSE MatchLine(pred.routeTag)
    IN  StrOrEmpty(IF lineMatch.matched THEN Str(lineMatch.group) ELSE NoStr,
                   pred.routeTag)

\* destMatch?.[1] || dir.title || ''
TtcDestination(dir) ==
    LET destMatch == MatchTowards(dir.title)
    IN  StrOrEmpty(IF destMatch.matched THEN Str(destMatch.group) ELSE NoStr,
                   dir.title)

\* parseInt(eta.minutes, 10) || 0
TtcMinutes(eta) ==
    LET n == ParseInt(eta.minutes) IN IF n.nan THEN Num(0) ELSE n

\* the object pushed for one eta
TtcPrediction(pred, dir, eta) ==
    [line |-> TtcLine(pred, dir),
     destination |-> TtcDestination(dir),
     timeMinutes |-> TtcMinutes(eta),
     isGhost |-> FALSE,
     vehicleId |-> eta.vehicle]

\* the innermost loop, for one direction
TtcDirection(pred, dir) ==
    IF dir.prediction.shape = "absent" THEN <<>>
    ELSE LET etas == ToArray(dir.prediction)
         IN  [i \in 1..Len(etas) |-> TtcPrediction(pred, dir, etas[i])]

\* the middle loop, for one entry of predictions
TtcEntry(pred) ==
    IF pred.direction.shape = "absent" THEN <<>>
    ELSE LET directions == ToArray(pred.direction)
         IN  ConcatAll([i \in 1..Len(directions) |-> TtcDirection(pred, directions[i])])

\* normalizeTtc(json)
TtcResult(json) ==
    IF json.env = "undefined" THEN Thrown
    ELSE IF json.predictions.shape = "absent" THEN Returned(<<>>)
    ELSE LET predictionsArray == ToArray(json.predictions)
         IN  Returned(ConcatAll([i \in 1..Len(predictionsArray) |->
                                    TtcEntry(predictionsArray[i])]))

\* ---- inputs ----
Eta(minutes, vehicle) == [minutes |-> minutes, vehicle |-> vehicle]

Dir(title, prediction) == [title |-> title, prediction |-> prediction]

Pred(routeTag, direction) == [routeTag |-> routeTag, direction |-> direction]

Json(env, predictions) == [env |-> env, predictions |-> predictions]

TitleKing == Str(<<"5", "0", "4", " ", "-", " ", "W", " ", "K", "i", "n", "g", " ", "t", "o", "w", "a", "r", "d", "s", " ", "D", "i", "s", "t", "i", "l", "l", "e", "r", "y", " ", "L", "o", "o", "p">>)

TitleLoop == Str(<<"5", "0", "4", "A", " ", "t", "o", "w", "a", "r", "d", "s", " ", "L", "o", "o", "p">>)

\* payloads that vary the shape at the three nesting levels
TtcEtaSamples == {Eta(Str(<<"7">>), "4402"), Eta(Str(<<"x">>), UNDEF)}

TtcPredictionFields == OneOrMany(TtcEtaSamples, SeqUpTo(TtcEtaSamples, MaxList))

TtcDirs == {Dir(t, p) : t \in {TitleLoop, NoStr}, p \in TtcPredictionFields}

TtcDirSamples ==
    {Dir(TitleLoop, Absent),
     Dir(TitleLoop, One(Eta(Str(<<"7">>), "4402"))),
     Dir(NoStr, Many(<<Eta(Str(<<"x">>), UNDEF), Eta(Str(<<"7">>), "4402")>>))}

TtcDirectionFields == OneOrMany(TtcDirs, SeqUpTo(TtcDirSamples, MaxList))

TtcPreds == {Pred(r, d) : r \in {Str(<<"5", "0", "1">>), NoStr}, d \in TtcDirectionFields}

TtcPredSamples ==
    {Pred(NoStr, Absent),
     Pred(Str(<<"5", "0", "1">>), One(Dir(NoStr, One(Eta(Str(<<"7">>), "4402"))))),
     Pred(NoStr, Many(<<Dir(TitleLoop, Many(<<Eta(Str(<<"x">>), UNDEF)>>)),
                        Dir(TitleLoop, One(Eta(Str(<<"7">>), "4402")))>>))}

TtcShapeInputs ==
    {Json("undefined", Absent)}
    \cup {Json("object", p) :
            p \in OneOrMany(TtcPreds, SeqUpTo(TtcPredSamples, MaxList))}

\* payloads of one eta that vary the direction title and the route tag
TagAlphabet == {"5", "A", " "}

TtcTitles ==
    {Str(t) : t \in Strs(TagAlphabet, MaxTagLen)}
    \cup {NoStr, TitleKing, TitleLoop,
          Str(<<"T", "O", "W", "A", "R", "D", "S", " ", "U", "n", "i", "o", "n">>), Str(<<"7", " ", "t", "o", "w", "a", "r", "d", "s", " ">>), Str(<<"N", "o", "r", "t", "h", "b", "o", "u", "n", "d">>), Str(<<"t", "o", "w", "a", "r", "d", "s", " ", "a", " ", "t", "o", "w", "a", "r", "d", "s", " ", "b">>), Str(<<"9", " ", "t", "o", "w", "a", "r", "d", "s", " ", "a", "\n", "b">>)}

TtcRouteTags ==
    {Str(t) : t \in Strs(TagAlphabet, MaxTagLen)} \cup {NoStr, Str(<<"b", "l", "u", "e">>)}

TtcLineInputs ==
    {Json("object", One(Pred(r, One(Dir(t, One(Eta(Str(<<"7">>), "4402"))))))) :
        t \in TtcTitles, r \in TtcRouteTags}

\* payloads of one eta that vary the minutes field
MinuteAlphabet == {"0", "7", "x", " ", "-"}

TtcMinuteInputs ==
    {Json("object", One(Pred(NoStr, One(Dir(TitleKing, One(Eta(m, UNDEF))))))) :
        m \in {Str(t) : t \in Strs(MinuteAlphabet, MaxStrLen)}
              \cup {NoStr, Str(<<"+", "7">>), Str(<<"1", "2">>)}}

TtcInputs == TtcShapeInputs \cup TtcLineInputs \cup TtcMinuteInputs

TtcIdle == Json("undefined", Absent)

InitTtc ==
    /\ ttcIn \in TtcInputs
    /\ ttcOut = NotCalled

NormalizeTtc ==
    /\ ttcOut.status = "none"
    /\ ttcOut' = TtcResult(ttcIn)
    /\ UNCHANGED <<ttcIn, goVars, subVars, dbVars>>

(***************************************************************************)
(* normalizeTtcSubway                                                      *)
(***************************************************************************)
\* an optional number property
NoNumber == [has |-> FALSE, v |-> 0]

Number(n) == [has |-> TRUE, v |-> n]

\* item.line ? `Line ${item.line}` : 'Subway'
SubwayLine(item) ==
    IF item.line.has /\ item.line.v # 0
    THEN <<"L", "i", "n", "e", " ">> \o DecimalString(item.line.v)
    ELSE <<"S", "u", "b", "w", "a", "y">>

\* item.nextTrains.split(',').map(t => parseInt(t.trim(), 10))
SubwayTimes(nextTrains) ==
    LET tokens == Split(nextTrains)
    IN  [i \in 1..Len(tokens) |-> ParseInt(Str(Trim(tokens[i])))]

\* a variant of SubwayKeep that keeps every token
SubwayKeepAll(timeMinutes) == TRUE

\* if (isNaN(timeMinutes)) continue
SubwayKeep(timeMinutes) == ~timeMinutes.nan

SubwayPrediction(item, timeMinutes) ==
    [line |-> SubwayLine(item),
     destination |-> StrOr(item.directionText, ""),
     timeMinutes |-> timeMinutes,
     isGhost |-> FALSE]

\* the loop body for one item
SubwayItem(item) ==
    IF StrFalsy(item.nextTrains) THEN <<>>
    ELSE LET times == SelectSeq(SubwayTimes(item.nextTrains.s), SubwayKeep)
         IN  [i \in 1..Len(times) |-> SubwayPrediction(item, times[i])]

\* normalizeTtcSubway(response): for...of throws when response is not iterable
SubwayResult(response) ==
    IF response.shape # "many" THEN Thrown
    ELSE Returned(ConcatAll([i \in 1..Len(response.items) |->
                                SubwayItem(response.items[i])]))

\* ---- inputs ----
Item(nextTrains, directionText, line) ==
    [nextTrains |-> nextTrains, directionText |-> directionText, line |-> line]

TrainAlphabet == {"0", "7", "x", " ", "-", ","}

\* the nextTrains string "3, 7, x, 12"
TrainsScenario == <<"3", ",", " ", "7", ",", " ", "x", ",", " ", "1", "2">>

SubwayTrainInputs ==
    {Many(<<Item(Str(t), "Northbound", Number(1))>>) :
        t \in Strs(TrainAlphabet, MaxStrLen + 1) \cup {TrainsScenario}}

SubwayItemSamples ==
    {Item(NoStr, "Northbound", Number(1)),
     Item(Str(<<"7", ",", "x">>), UNDEF, NoNumber),
     Item(Str(<<"0">>), "Southbound", Number(0)),
     Item(Str(<<"-", "7", ",", "1", "2">>), "", Number(12))}

SubwayInputs ==
    {Absent}
    \cup SubwayTrainInputs
    \cup {Many(l) : l \in SeqUpTo(SubwayItemSamples, MaxItems)}

SubwayIdle == Absent

InitSubway ==
    /\ subIn \in SubwayInputs
    /\ subOut = NotCalled

NormalizeTtcSubway ==
    /\ subOut.status = "none"
    /\ subOut' = SubwayResult(subIn)
    /\ UNCHANGED <<subIn, goVars, ttcVars, dbVars>>

(***************************************************************************)
(* The stop store (gtaStopsDb): object store "stops" keyed by id, with     *)
(* indexes on agency, lat, lon and code.  Coordinates are grid points,     *)
(* one grid step being 0.001 degree.  A distance is a square root of a     *)
(* natural number and is kept as [sqrtOf |-> n].                           *)
(***************************************************************************)
AgencyID == {"ttc", "go", "yrt", "miway", "brampton"}

\* bounds of the store model
GridMax == 2
MaxRange == 2
MaxBatch == 2
NumCallers == 2
MaxOpens == 2

\* Math.sqrt(n)
Sqrt(n) == [sqrtOf |-> n]

\* a <= r for a distance a and an integer r
SqrtLeq(a, r) == r >= 0 /\ a.sqrtOf <= r * r

\* metres per grid step along a meridian and along the parallel of Toronto
MetresPerLatStep == 111

MetresPerLonStep == 80

\* distanceOfTwoCoordinates(a, b): great-circle distance in metres, in its
\* small-angle form for points a few grid steps apart
distanceOfTwoCoordinates(a, b) ==
    Sqrt((MetresPerLatStep * (a.lat - b.lat)) * (MetresPerLatStep * (a.lat - b.lat))
         + (MetresPerLonStep * (a.lon - b.lon)) * (MetresPerLonStep * (a.lon - b.lon)))

\* the order of primary keys in the object store
StopIdOrder == <<"GO_UN", "TTC_1", "TTC_2", "YRT_9">>

IdRank(id) == CHOOSE i \in DOMAIN StopIdOrder : StopIdOrder[i] = id

Stop(id, code, agency, name, lat, lon) ==
    [id |-> id, code |-> code, agency |-> agency, name |-> name, lat |-> lat, lon |-> lon]

\* getDb(): the connection is opened on first use and memoized
getDb == IF dbPromise = "null" THEN "resolved" ELSE dbPromise

\* a variant of Put that adds the record next to the one stored under its id
PutWithoutReplace(records, stop) ==
    records \cup {Stop(stop.id, stop.code, stop.agency, stop.name, stop.lat, stop.lon)}

\* a variant of Put that keeps the stored record of an id already present
PutIfAbsent(records, stop) ==
    IF \E r \in records : r.id = stop.id THEN records
    ELSE records \cup {Stop(stop.id, stop.code, stop.agency, stop.name, stop.lat, stop.lon)}

\* store.put(record): insert or replace by primary key
Put(records, stop) ==
    {r \in records : r.id # stop.id}
    \cup {Stop(stop.id, stop.code, stop.agency, stop.name, stop.lat, stop.lon)}

\* the puts of one saveStops transaction, in batch order
RECURSIVE PutAll(_, _)
PutAll(records, batch) ==
    IF batch = <<>> THEN records ELSE PutAll(Put(records, Head(batch)), Tail(batch))

\* the records an index cursor over [lower, upper] of the lat index visits,
\* in index order: by lat, then by primary key
RECURSIVE InLatOrder(_)
InLatOrder(S) ==
    IF S = {} THEN <<>>
    ELSE LET first == CHOOSE x \in S : \A y \in S :
                          \/ x.lat < y.lat
                          \/ x.lat = y.lat /\ IdRank(x.id) <= IdRank(y.id)
         IN  <<first>> \o InLatOrder(S \ {first})

\* a cursor over the open range: IDBKeyRange.bound(lower, upper, true, true)
LatCursorOpen(records, lower, upper) ==
    InLatOrder({r \in records : lower < r.lat /\ r.lat < upper})

\* latIndex.openCursor(IDBKeyRange.bound(lowerLat, upperLat)): both ends closed
LatCursor(records, lower, upper) ==
    InLatOrder({r \in records : lower <= r.lat /\ r.lat <= upper})

\* the StopWithDistance built for a stored stop
WithDistance(stop, distance, realDistance) ==
    [id |-> stop.id, code |-> stop.code, agency |-> stop.agency, name |-> stop.name,
     lat |-> stop.lat, lon |-> stop.lon,
     distance |-> distance, realDistance |-> realDistance,
     title |-> stop.name, lines |-> <<>>, directions |-> "", type |-> UNDEF]

\* a variant of WithinDisc that trusts the bounding box
WithinBox(distance, range) == TRUE

\* the test on the planar distance that admits a candidate
WithinDisc(distance, range) == SqrtLeq(distance, range)

\* the tests of the cursor loop that admit a candidate
Admitted(stop, q) ==
    /\ stop.lon >= q.lon - q.range /\ stop.lon <= q.lon + q.range
    /\ (q.agencyFilter \in {UNDEF, ""} \/ stop.agency = q.agencyFilter)
    /\ WithinDisc(Sqrt((stop.lat - q.lat) * (stop.lat - q.lat)
                       + (stop.lon - q.lon) * (stop.lon - q.lon)), q.range)

\* results.sort((a, b) => a.realDistance - b.realDistance): a stable sort
RECURSIVE InsertByRealDistance(_, _)
InsertByRealDistance(sorted, x) ==
    IF sorted = <<>> THEN <<x>>
    ELSE IF sorted[Len(sorted)].realDistance.sqrtOf <= x.realDistance.sqrtOf
         THEN Append(sorted, x)
         ELSE Append(InsertByRealDistance(SubSeq(sorted, 1, Len(sorted) - 1), x),
                     sorted[Len(sorted)])

\* Array.prototype.sort is stable: each element goes behind its equals
RECURSIVE StableSort(_)
StableSort(l) ==
    IF l = <<>> THEN <<>>
    ELSE InsertByRealDistance(StableSort(SubSeq(l, 1, Len(l) - 1)), l[Len(l)])

\* a variant of SortByRealDistance that keeps the cursor order
SortByRealDistanceSkipped(l) == l

\* results.sort((a, b) => a.realDistance - b.realDistance)
SortByRealDistance(l) == StableSort(l)

\* getStopsWithinRange(lat, lon, range, agencyFilter) on the stored records;
\* IDBKeyRange.bound throws DataError when lower > upper
StopsWithinRange(records, q) ==
    IF q.lat - q.range > q.lat + q.range THEN Thrown
    ELSE LET candidates == LatCursor(records, q.lat - q.range, q.lat + q.range)
             kept == SelectSeq(candidates, LAMBDA stop : Admitted(stop, q))
         IN  Returned(SortByRealDistance(
                 [i \in 1..Len(kept) |->
                     WithDistance(kept[i],
                         Sqrt((kept[i].lat - q.lat) * (kept[i].lat - q.lat)
                              + (kept[i].lon - q.lon) * (kept[i].lon - q.lon)),
                         distanceOfTwoCoordinates(q, kept[i]))]))

\* a lookup that found a record, and one that found none (undefined)
Found(x) == Returned(<<x>>)

NotFound == Returned(<<>>)

\* getStop(id): db.get by primary key; distance and realDistance are 0
StopById(records, id) ==
    IF \A r \in records : r.id # id THEN NotFound
    ELSE Found(WithDistance(CHOOSE r \in records : r.id = id, Sqrt(0), Sqrt(0)))

\* the records an index cursor over one key visits: in primary key order
RECURSIVE InIdOrder(_)
InIdOrder(S) ==
    IF S = {} THEN <<>>
    ELSE LET first == CHOOSE x \in S : \A y \in S : IdRank(x.id) <= IdRank(y.id)
         IN  <<first>> \o InIdOrder(S \ {first})

CodeCursor(records, code) == InIdOrder({r \in records : r.code = code})

\* a loop that returns the first record under the code, whatever its agency
CodeMatchAny(stop, agency) == TRUE

\* the test of the cursor loop of getStopByCode
CodeMatch(stop, agency) == stop.agency = agency

\* getStopByCode(code, agency): the first record of the code index cursor
\* whose agency matches
StopByCode(records, code, agency) ==
    LET hits == SelectSeq(CodeCursor(records, code), LAMBDA stop : CodeMatch(stop, agency))
    IN  IF hits = <<>> THEN NotFound
        ELSE Found(WithDistance(hits[1], Sqrt(0), Sqrt(0)))

\* getSize(): db.count("stops")
Size(records) == Cardinality(records)

\* getAgencyCount(agency): index.count(IDBKeyRange.only(agency))
AgencyCount(records, agency) == Cardinality({r \in records : r.agency = agency})

\* index.openCursor(IDBKeyRange.only(agency)): the records of the agency
AgencyCursor(records, agency) == InIdOrder({r \in records : r.agency = agency})

\* cursor.delete(): the record under the cursor leaves the store
DeleteUnderCursor(records, agency) == records \ {AgencyCursor(records, agency)[1]}

\* while (cursor) { delete; continue }: until the cursor is exhausted
RECURSIVE Sweep(_, _)
Sweep(records, agency) ==
    IF AgencyCursor(records, agency) = <<>> THEN records
    ELSE Sweep(DeleteUnderCursor(records, agency), agency)

\* a sweep that deletes under the first cursor position and never continues
DeleteAgencyOnce(records, agency) ==
    IF AgencyCursor(records, agency) = <<>> THEN records
    ELSE DeleteUnderCursor(records, agency)

\* the cursor sweep of clearAgency
DeleteAgency(records, agency) == Sweep(records, agency)

\* ---- inputs ----
Grid == 0..GridMax

\* the stops the feeds deliver
Catalogue ==
    {Stop("GO_UN", "UN", "go", "Union Station", 1, 1),
     Stop("TTC_1", "1", "ttc", "King St W", 2, 2),
     Stop("TTC_1", "1", "ttc", "King St W", 0, 1),
     Stop("TTC_2", "UN", "ttc", "", 1, GridMax),
     Stop("TTC_2", "UN", "go", "", 2, 0),
     Stop("YRT_9", "1", "yrt", "Finch", 1, 0),
     Stop("YRT_9", "9", "yrt", "Finch", 0, GridMax)}

\* query and results hold the arguments and the outcome of the latest call
\* when it was a range query; a write hands nothing back
Query(lat, lon, range, agencyFilter) ==
    [lat |-> lat, lon |-> lon, range |-> range, agencyFilter |-> agencyFilter]

NoQuery == Query(0, 0, 0, UNDEF)

\* call holds the latest operation and its id / code / agency arguments
Call(op, id, code, agency) == [op |-> op, id |-> id, code |-> code, agency |-> agency]

NoCall == Call("none", "", "", "")

StopIds == Range(StopIdOrder)

StopCodes == {c.code : c \in Catalogue} \cup {"404"}

\* saved is the history of the feeds: for every id the stop most recently
\* handed to saveStops and not cleared since
SavedAfter(history, batch) ==
    {s \in history : \A i \in 1..Len(batch) : batch[i].id # s.id}
    \cup {batch[i] : i \in {k \in 1..Len(batch) :
                                \A j \in (k + 1)..Len(batch) : batch[j].id # batch[k].id}}

InitDb ==
    /\ dbPromise = "null"
    /\ stops = {}
    /\ call = NoCall
    /\ query = NoQuery
    /\ results = NotCalled
    /\ saved = {}

\* saveStops(stops): one readwrite transaction of puts
SaveStops ==
    \E batch \in SeqUpTo(Catalogue, MaxBatch) :
        /\ dbPromise' = getDb
        /\ stops' = PutAll(stops, batch)
        /\ call' = Call("saveStops", "", "", "")
        /\ query' = NoQuery
        /\ results' = NotCalled
        /\ saved' = SavedAfter(saved, batch)
        /\ UNCHANGED restVars

\* clearAgency(agency): delete every record the agency index holds for it
ClearAgency ==
    \E agency \in AgencyID :
        /\ dbPromise' = getDb
        /\ stops' = DeleteAgency(stops, agency)
        /\ call' = Call("clearAgency", "", "", agency)
        /\ query' = NoQuery
        /\ results' = NotCalled
        /\ saved' = {s \in saved : ~(s.agency = agency)}
        /\ UNCHANGED restVars

\* clear(): delete all records
Clear ==
    /\ dbPromise' = getDb
    /\ stops' = {}
    /\ call' = Call("clear", "", "", "")
    /\ query' = NoQuery
    /\ results' = NotCalled
    /\ saved' = {}
    /\ UNCHANGED restVars

\* getStopsWithinRange(lat, lon, range, agencyFilter?)
GetStopsWithinRange ==
    \E lat \in Grid, lon \in Grid, range \in (0 - 1)..MaxRange,
       agencyFilter \in {UNDEF, "ttc", "go"} :
        /\ dbPromise' = getDb
        /\ call' = Call("getStopsWithinRange", "", "", agencyFilter)
        /\ query' = Query(lat, lon, range, agencyFilter)
        /\ results' = StopsWithinRange(stops, query')
        /\ UNCHANGED <<stops, saved, restVars>>

\* getStop(id)
GetStop ==
    \E id \in StopIds :
        /\ dbPromise' = getDb
        /\ call' = Call("getStop", id, "", "")
        /\ query' = NoQuery
        /\ results' = StopById(stops, id)
        /\ UNCHANGED <<stops, saved, restVars>>

\* getStopByCode(code, agency)
GetStopByCode ==
    \E code \in StopCodes, agency \in AgencyID :
        /\ dbPromise' = getDb
        /\ call' = Call("getStopByCode", "", code, agency)
        /\ query' = NoQuery
        /\ results' = StopByCode(stops, code, agency)
        /\ UNCHANGED <<stops, saved, restVars>>

\* getSize()
GetSize ==
    /\ dbPromise' = getDb
    /\ call' = Call("getSize", "", "", "")
    /\ query' = NoQuery
    /\ results' = Returned(<<Size(stops)>>)
    /\ UNCHANGED <<stops, saved, restVars>>

\* getAgencyCount(agency)
GetAgencyCount ==
    \E agency \in AgencyID :
        /\ dbPromise' = getDb
        /\ call' = Call("getAgencyCount", "", "", agency)
        /\ query' = NoQuery
        /\ results' = Returned(<<AgencyCount(stops, agency)>>)
        /\ UNCHANGED <<stops, saved, restVars>>

(***************************************************************************)
(* The stop store seen at its suspension points: several callers, the     *)
(* memoized connection promise and the readwrite transactions             *)
(***************************************************************************)
Callers == 1..NumCallers

\* if (!dbPromise): a promise, pending, resolved or rejected, is truthy
NeedsOpenWhilePending(promise) == promise \in {"null", "pending"}

NeedsOpenAfterFailure(promise) == promise \in {"null", "rejected"}

NeedsOpen(promise) == promise = "null"

\* a key path that yields undefined is no valid key: put throws DataError
ValidKey(id) == id # UNDEF

\* the stops a feed hands to saveStops; the last one came without an id
Feed ==
    {Stop("TTC_1", "1", "ttc", "King St W", 0, 1),
     Stop("TTC_2", "UN", "ttc", "", 1, GridMax),
     Stop(UNDEF, "9", "yrt", "Finch", 1, 0)}

Job(op, agency) == [op |-> op, agency |-> agency]

NoJob == Job("none", "")

\* a readwrite transaction on "stops": its owner, the operation it serves,
\* the puts still to issue, its view of the store, and whether it is still
\* taking requests ("active") or on its way to commit ("finishing")
Tx(owner, j, todo, work, state) ==
    [owner |-> owner, job |-> j, todo |-> todo, work |-> work, state |-> state]

NoTx == Tx(0, NoJob, <<>>, {}, "none")

ConcAtRest ==
    /\ pc = [c \in Callers |-> "idle"]
    /\ job = [c \in Callers |-> NoJob]
    /\ db = [c \in Callers |-> 0]
    /\ tx = NoTx
    /\ openCount = 0

\* getDb(), run synchronously by every operation before its first await:
\* openDB is called when dbPromise is unset, the promise is kept and returned
GetDb(c) ==
    /\ IF NeedsOpen(dbPromise)
       THEN /\ openCount < MaxOpens
            /\ dbPromise' = "pending"
            /\ openCount' = openCount + 1
       ELSE UNCHANGED <<dbPromise, openCount>>
    /\ db' = [db EXCEPT ![c] = openCount']

\* an operation is called: it runs up to  await getDb()
Enter(c, j) ==
    /\ pc[c] \in {"idle", "done", "failed"}
    /\ GetDb(c)
    /\ pc' = [pc EXCEPT ![c] = "awaitDb"]
    /\ job' = [job EXCEPT ![c] = j]
    /\ UNCHANGED <<stops, tx, callVars>>

SaveStopsCalled(c) == Enter(c, Job("saveStops", ""))

ClearAgencyCalled(c) == \E agency \in {"ttc", "go"} : Enter(c, Job("clearAgency", agency))

GetSizeCalled(c) == Enter(c, Job("getSize", ""))

\* openDB settles
OpenSucceeds ==
    /\ dbPromise = "pending"
    /\ dbPromise' = "resolved"
    /\ UNCHANGED <<stops, concVars, callVars>>

OpenFails ==
    /\ dbPromise = "pending"
    /\ dbPromise' = "rejected"
    /\ UNCHANGED <<stops, concVars, callVars>>

\* await getDb() on a rejected promise: the operation rejects
AwaitDbRejects(c) ==
    /\ pc[c] = "awaitDb"
    /\ dbPromise = "rejected"
    /\ pc' = [pc EXCEPT ![c] = "failed"]
    /\ job' = [job EXCEPT ![c] = NoJob]
    /\ UNCHANGED <<dbPromise, stops, db, tx, openCount, callVars>>

\* getSize resumes: db.count reads the committed store
GetSizeReads(c) ==
    /\ pc[c] = "awaitDb"
    /\ dbPromise = "resolved"
    /\ job[c].op = "getSize"
    /\ pc' = [pc EXCEPT ![c] = "done"]
    /\ job' = [job EXCEPT ![c] = NoJob]
    /\ UNCHANGED <<dbPromise, stops, db, tx, openCount, callVars>>

\* saveStops / clearAgency resume: db.transaction("stops", "readwrite");
\* readwrite transactions on one store run one after the other. The batch
\* of saveStops is first read here, by its for loop
BeginTransaction(c) ==
    /\ pc[c] = "awaitDb"
    /\ dbPromise = "resolved"
    /\ job[c].op \in {"saveStops", "clearAgency"}
    /\ tx = NoTx
    /\ \E batch \in IF job[c].op = "saveStops" THEN SeqUpTo(Feed, MaxBatch) ELSE {<<>>} :
          tx' = Tx(c, job[c], batch, stops, "active")
    /\ pc' = [pc EXCEPT ![c] = "run"]
    /\ job' = [job EXCEPT ![c] = NoJob]
    /\ UNCHANGED <<dbPromise, stops, db, openCount, callVars>>

Running(c, op) == tx.owner = c /\ tx.state = "active" /\ tx.job.op = op

\* await store.put({...}) of the next stop of the batch
PutNext(c) ==
    /\ Running(c, "saveStops")
    /\ tx.todo # <<>>
    /\ ValidKey(Head(tx.todo).id)
    /\ tx' = [tx EXCEPT !.work = Put(tx.work, Head(tx.todo)), !.todo = Tail(tx.todo)]
    /\ UNCHANGED <<dbPromise, stops, pc, job, db, openCount, callVars>>

\* store.put throws DataError: saveStops rejects out of its loop; nothing
\* aborts the transaction, which commits once it has no request left
PutThrows(c) ==
    /\ Running(c, "saveStops")
    /\ tx.todo # <<>>
    /\ ~ValidKey(Head(tx.todo).id)
    /\ tx' = [tx EXCEPT !.state = "finishing"]
    /\ pc' = [pc EXCEPT ![c] = "failed"]
    /\ UNCHANGED <<dbPromise, stops, job, db, openCount, callVars>>

\* await cursor.delete(); cursor = await cursor.continue()
DeleteNext(c) ==
    /\ Running(c, "clearAgency")
    /\ AgencyCursor(tx.work, tx.job.agency) # <<>>
    /\ tx' = [tx EXCEPT !.work = DeleteUnderCursor(tx.work, tx.job.agency)]
    /\ UNCHANGED <<dbPromise, stops, pc, job, db, openCount, callVars>>

\* the loop is over: await tx.done
AwaitTxDone(c) ==
    /\ \/ Running(c, "saveStops") /\ tx.todo = <<>>
       \/ Running(c, "clearAgency") /\ AgencyCursor(tx.work, tx.job.agency) = <<>>
    /\ tx' = [tx EXCEPT !.state = "finishing"]
    /\ pc' = [pc EXCEPT ![c] = "awaitDone"]
    /\ UNCHANGED <<dbPromise, stops, job, db, openCount, callVars>>

\* a put or delete request fails in storage: the awaited request rejects
\* and the error aborts the transaction
RequestFails(c) ==
    /\ tx.owner = c
    /\ tx.state = "active"
    /\ tx' = NoTx
    /\ pc' = [pc EXCEPT ![c] = "failed"]
    /\ UNCHANGED <<dbPromise, stops, job, db, openCount, callVars>>

\* the transaction commits: its view becomes the store, tx.done resolves
Commit ==
    /\ tx.state = "finishing"
    /\ stops' = tx.work
    /\ tx' = NoTx
    /\ pc' = [pc EXCEPT ![tx.owner] = IF @ = "awaitDone" THEN "done" ELSE @]
    /\ UNCHANGED <<dbPromise, job, db, openCount, callVars>>

(***************************************************************************)
(* Specifications of the normalizers                                       *)
(***************************************************************************)
GoAtRest == goIn = GoIdle /\ goNow = <<>> /\ goOut = NotCalled

TtcAtRest == ttcIn = TtcIdle /\ ttcOut = NotCalled

SubwayAtRest == subIn = SubwayIdle /\ subOut = NotCalled

DbAtRest == InitDb /\ ConcAtRest

GoInit == InitGo /\ TtcAtRest /\ SubwayAtRest /\ DbAtRest

GoNext == NormalizeGoTransit

SpecGo == GoInit /\ [][GoNext]_vars

TtcInit == InitTtc /\ GoAtRest /\ SubwayAtRest /\ DbAtRest

TtcNext == NormalizeTtc

SpecTtc == TtcInit /\ [][TtcNext]_vars

SubwayInit == InitSubway /\ GoAtRest /\ TtcAtRest /\ DbAtRest

SubwayNext == NormalizeTtcSubway

SpecSubway == SubwayInit /\ [][SubwayNext]_vars

(***************************************************************************)
(* Specification of the stop store                                         *)
(***************************************************************************)
Init == InitDb /\ ConcAtRest /\ GoAtRest /\ TtcAtRest /\ SubwayAtRest

Next ==
    \/ SaveStops \/ ClearAgency \/ Clear
    \/ GetStopsWithinRange \/ GetStop \/ GetStopByCode \/ GetSize \/ GetAgencyCount

Spec == Init /\ [][Next]_vars

(***************************************************************************)
(* Specification of the stop store under interleaved callers               *)
(***************************************************************************)
ConcInit == InitDb /\ ConcAtRest /\ GoAtRest /\ TtcAtRest /\ SubwayAtRest

ConcNext ==
    \/ OpenSucceeds \/ OpenFails \/ Commit
    \/ \E c \in Callers :
          \/ SaveStopsCalled(c) \/ ClearAgencyCalled(c) \/ GetSizeCalled(c)
          \/ AwaitDbRejects(c) \/ GetSizeReads(c) \/ BeginTransaction(c)
          \/ PutNext(c) \/ PutThrows(c) \/ DeleteNext(c) \/ AwaitTxDone(c)
          \/ RequestFails(c)

SpecConc == ConcInit /\ [][ConcNext]_vars

\* an operation suspended on a settled promise is resumed: the microtask
\* queue is drained before the event loop goes on
FairConc ==
    ConcInit /\ [][ConcNext]_vars /\ \A c \in Callers : WF_vars(AwaitDbRejects(c))

(***************************************************************************)
(* Properties of normalizeGoTransit (SpecGo)                               *)
(***************************************************************************)
\* the entries of the payload's NextService list
GoEntries == goIn.NextService.items

GoCalledOnList ==
    /\ goOut.status = "ok"
    /\ goIn.data = "present"
    /\ goIn.NextService.shape = "many"

\* C1: every entry of NextService yields one prediction, whose isGhost is
\* true when the entry's Computed flag is 0 and false when it is 1
C1_GhostFlag ==
    GoCalledOnList =>
        /\ Len(goOut.out) = Len(GoEntries)
        /\ \A i \in 1..Len(GoEntries) :
              /\ GoEntries[i].Computed = 0 => goOut.out[i].isGhost = TRUE
              /\ GoEntries[i].Computed = 1 => goOut.out[i].isGhost = FALSE

C1_Witness ==
    /\ GoCalledOnList
    /\ \E i, j \in 1..Len(GoEntries) :
          /\ GoEntries[i].Computed = 0 /\ goOut.out[i].isGhost
          /\ GoEntries[j].Computed = 1 /\ ~goOut.out[j].isGhost

\* timeMinutes is not a negative number
NotNegative(p) == p.timeMinutes.nan \/ p.timeMinutes.v >= 0

\* a timestamp field denotes an instant when it is a parseable date string
\* or null (which Date reads as the epoch)
HasInstant(t) == t.k \in {"ts", "null"}

Instant(t) == IF t.k = "ts" THEN t.ms ELSE 0

\* C2 as stated: every entry whose computed departure time lies before the
\* current time yields timeMinutes = 0, and timeMinutes is never negative
C2_ComputedPastIsZero ==
    GoCalledOnList =>
        \A i \in 1..Len(GoEntries) :
            /\ (/\ HasInstant(GoEntries[i].ComputedDepartureTime)
                /\ Instant(GoEntries[i].ComputedDepartureTime) < goNow[i])
               => goOut.out[i].timeMinutes = Num(0)
            /\ NotNegative(goOut.out[i])

\* the timestamp field an entry is measured by: the computed departure time
\* when the Computed flag is 1 and a computed time is present, the scheduled
\* departure time otherwise
SelectedField(e) ==
    IF e.Computed = 1 /\ e.ComputedDepartureTime.k \in {"ts", "bad"}
    THEN e.ComputedDepartureTime
    ELSE e.ScheduledDepartureTime

\* C2 amended: every entry whose selected departure time lies before the
\* current time yields timeMinutes = 0, and timeMinutes is never negative
C2_SelectedPastIsZero ==
    GoCalledOnList =>
        \A i \in 1..Len(GoEntries) :
            /\ (/\ HasInstant(SelectedField(GoEntries[i]))
                /\ Instant(SelectedField(GoEntries[i])) < goNow[i])
               => goOut.out[i].timeMinutes = Num(0)
            /\ NotNegative(goOut.out[i])

C2_Witness ==
    /\ GoCalledOnList
    /\ \E i \in 1..Len(GoEntries) :
          /\ GoEntries[i].Computed = 1
          /\ GoEntries[i].ComputedDepartureTime.k = "ts"
          /\ GoEntries[i].ComputedDepartureTime.ms < goNow[i]
          /\ GoEntries[i].ScheduledDepartureTime.k = "ts"
          /\ GoEntries[i].ScheduledDepartureTime.ms > goNow[i]
          /\ goOut.out[i].timeMinutes = Num(0)

\* max(0, round((t - now) / 60 s)) for a timestamp field t; not a number
\* when t is not a timestamp
MinutesUntil(t, now) ==
    IF ~HasInstant(t) THEN NaN
    ELSE LET m == ((Instant(t) - now) + 30000) \div 60000
         IN  Num(IF m > 0 THEN m ELSE 0)

\* C3 as stated: timeMinutes = max(0, round((selectedTime - now) / 60 s)),
\* selectedTime being the computed departure time when the Computed flag is
\* 1 and the scheduled departure time otherwise
C3_MinutesOfFlaggedTime ==
    GoCalledOnList =>
        \A i \in 1..Len(GoEntries) :
            goOut.out[i].timeMinutes =
                MinutesUntil(IF GoEntries[i].Computed = 1
                             THEN GoEntries[i].ComputedDepartureTime
                             ELSE GoEntries[i].ScheduledDepartureTime, goNow[i])

\* C3 amended: for every entry whose selected time denotes an instant,
\* timeMinutes = max(0, round((selectedTime - now) / 60 s)), selectedTime
\* being the computed departure time when the Computed flag is 1 and a
\* computed time is present, and the scheduled departure time otherwise
C3_MinutesOfSelectedTime ==
    GoCalledOnList =>
        \A i \in 1..Len(GoEntries) :
            HasInstant(SelectedField(GoEntries[i])) =>
                goOut.out[i].timeMinutes =
                    MinutesUntil(SelectedField(GoEntries[i]), goNow[i])

\* the scenario: Computed 0, scheduled five minutes ahead, computed time past
C3_Witness ==
    /\ GoCalledOnList
    /\ \E i \in 1..Len(GoEntries) :
          /\ GoEntries[i].Computed = 0
          /\ GoEntries[i].ScheduledDepartureTime = TimeTs(goNow[i] + 300000)
          /\ GoEntries[i].ComputedDepartureTime = TimeTs(ClockStart - 90000)
          /\ goOut.out[i].timeMinutes = Num(5)
          /\ goOut.out[i].isGhost
          /\ goOut.out[i].line = "Lakeshore West"
          /\ goOut.out[i].destination = "Union Station"

\* C4: an entry whose selected time field cannot be parsed as a timestamp is
\* still emitted, with timeMinutes = 0
C4_UnparsedTimeIsZero ==
    GoCalledOnList =>
        /\ Len(goOut.out) = Len(GoEntries)
        /\ \A i \in 1..Len(GoEntries) :
              SelectedField(GoEntries[i]).k \in {"bad", "empty"} =>
                  goOut.out[i].timeMinutes = Num(0)

(***************************************************************************)
(* Properties of the three normalizers on missing structures               *)
(***************************************************************************)
\* C5: no normalizer throws on a missing list field or sub-structure: a GO
\* envelope without data or without an array NextService, a TTC payload
\* without predictions, and an absent subway list yield the empty list;
\* entries without direction / prediction / nextTrains are skipped
C5_MissingYieldsEmpty ==
    /\ (goOut.status # "none" /\ goIn.env = "object") =>
          /\ goOut.status = "ok"
          /\ (goIn.data = "absent" \/ goIn.NextService.shape # "many") =>
                goOut.out = <<>>
    /\ (ttcOut.status # "none" /\ ttcIn.env = "object") =>
          /\ ttcOut.status = "ok"
          /\ ttcIn.predictions.shape = "absent" => ttcOut.out = <<>>
    /\ subOut.status # "none" =>
          /\ subOut.status = "ok"
          /\ subIn.shape = "absent" => subOut.out = <<>>

(***************************************************************************)
(* Properties of normalizeTtcSubway (SpecSubway)                           *)
(***************************************************************************)
\* a token parses as an integer when, after its surrounding white space, it
\* starts with an optional sign followed by a decimal digit
IntegerToken(tok) ==
    LET t == Trim(tok)
        u == IF t # <<>> /\ Head(t) \in {"+", "-"} THEN Tail(t) ELSE t
    IN  u # <<>> /\ IsDigit(Head(u))

\* the comma-separated tokens of an item's nextTrains
TokensOf(item) == IF StrFalsy(item.nextTrains) THEN <<>> ELSE Split(item.nextTrains.s)

\* the minutes an item announces: its integer tokens' values, in token order
AnnouncedMinutes(item) ==
    LET ints == SelectSeq(TokensOf(item), IntegerToken)
    IN  [i \in 1..Len(ints) |-> ParseInt(Str(ints[i])).v]

\* C6: the predictions emitted for every item are as many as the tokens of
\* nextTrains that parse as integers, carry the parsed values in token
\* order (none for a non-numeric token) and have isGhost = false
C6_OnePredictionPerIntegerToken ==
    subOut.status = "ok" =>
        /\ [i \in 1..Len(subOut.out) |-> subOut.out[i].timeMinutes]
              = ConcatAll([k \in 1..Len(subIn.items) |->
                    [i \in 1..Len(AnnouncedMinutes(subIn.items[k])) |->
                        Num(AnnouncedMinutes(subIn.items[k])[i])]])
        /\ \A i \in 1..Len(subOut.out) : subOut.out[i].isGhost = FALSE
        /\ Len(subIn.items) = 1 =>
              Len(subOut.out) =
                 Cardinality({j \in 1..Len(TokensOf(subIn.items[1])) :
                                 IntegerToken(TokensOf(subIn.items[1])[j])})

\* the scenario "3, 7, x, 12": three predictions 3, 7, 12
C6_Witness ==
    /\ subOut.status = "ok"
    /\ Len(subIn.items) = 1
    /\ subIn.items[1].nextTrains = Str(TrainsScenario)
    /\ [i \in 1..Len(subOut.out) |-> subOut.out[i].timeMinutes]
          = <<Num(3), Num(7), Num(12)>>
    /\ \A i \in 1..Len(subOut.out) : ~subOut.out[i].isGhost

(***************************************************************************)
(* Properties of normalizeTtc (SpecTtc)                                    *)
(***************************************************************************)
\* a T | T[] field with a bare object replaced by the one-element list of
\* it (wrap), or a one-element list replaced by its element (otherwise)
Reshape(f, wrap) ==
    IF wrap /\ f.shape = "one" THEN Many(f.items)
    ELSE IF ~wrap /\ f.shape = "many" /\ Len(f.items) = 1 THEN One(f.items[1])
    ELSE f

ReshapeDir(dir, level, wrap) ==
    IF level = 3 THEN Dir(dir.title, Reshape(dir.prediction, wrap)) ELSE dir

ReshapePred(pred, level, wrap) ==
    LET direction == [shape |-> pred.direction.shape,
                      items |-> [i \in 1..Len(pred.direction.items) |->
                                    ReshapeDir(pred.direction.items[i], level, wrap)]]
    IN  Pred(pred.routeTag, IF level = 2 THEN Reshape(direction, wrap) ELSE direction)

\* the payload reshaped at one nesting level: 1 predictions, 2 direction,
\* 3 prediction
ReshapeJson(json, level, wrap) ==
    LET predictions == [shape |-> json.predictions.shape,
                        items |-> [i \in 1..Len(json.predictions.items) |->
                                      ReshapePred(json.predictions.items[i], level, wrap)]]
    IN  Json(json.env, IF level = 1 THEN Reshape(predictions, wrap) ELSE predictions)

\* C7: at each of the three nesting levels a bare object is treated like the
\* one-element list of it: reshaping the payload either way at any level
\* leaves the returned predictions unchanged
C7_ScalarIsSingleton ==
    ttcOut.status = "ok" =>
        \A level \in 1..3 : \A wrap \in BOOLEAN :
            TtcResult(ReshapeJson(ttcIn, level, wrap)) = ttcOut

\* a payload of bare objects at all three levels that yields a prediction
C7_Witness ==
    /\ ttcOut.status = "ok"
    /\ ttcIn.predictions.shape = "one"
    /\ ttcIn.predictions.items[1].direction.shape = "one"
    /\ ttcIn.predictions.items[1].direction.items[1].prediction.shape = "one"
    /\ Len(ttcOut.out) = 1
    /\ ReshapeJson(ttcIn, 1, TRUE) # ttcIn

\* the lines of the emitted predictions, in order, when the line of a
\* prediction is LineOf(direction title, route tag)
LinesBy(json, LineOf(_, _)) ==
    LET P == json.predictions.items
    IN  ConcatAll([i \in 1..Len(P) |->
            LET D == P[i].direction.items
            IN  ConcatAll([j \in 1..Len(D) |->
                    [k \in 1..Len(D[j].prediction.items) |->
                        LineOf(D[j].title, P[i].routeTag)]])])

IsLetter(c) == c \in Range(UpperCase) \cup Range(LowerCase)

\* the leading digits-plus-optional-letter token of a string, "" if none
DigitsLetterToken(x) ==
    LET ds == DigitRun(x.s)
        rest == SubSeq(x.s, Len(ds) + 1, Len(x.s))
    IN  IF ~x.has \/ ds = <<>> THEN <<>>
        ELSE IF rest # <<>> /\ IsLetter(Head(rest)) THEN ds \o <<Head(rest)>>
        ELSE ds

\* the leading token of digits followed by word characters, "" if none
DigitsWordToken(x) ==
    LET ds == DigitRun(x.s)
    IN  IF ~x.has \/ ds = <<>> THEN <<>>
        ELSE ds \o WordRun(SubSeq(x.s, Len(ds) + 1, Len(x.s)))

StatedLine(title, routeTag) ==
    IF DigitsLetterToken(title) # <<>> THEN DigitsLetterToken(title)
    ELSE DigitsLetterToken(routeTag)

AmendedLine(title, routeTag) ==
    IF DigitsWordToken(title) # <<>> THEN DigitsWordToken(title)
    ELSE IF DigitsWordToken(routeTag) # <<>> THEN DigitsWordToken(routeTag)
    ELSE IF routeTag.has THEN routeTag.s
    ELSE <<>>

\* C8 as stated: line is the leading digits-plus-optional-letter token of
\* the direction title, else that of the route tag, else the empty string
C8_LineIsTokenOrEmpty ==
    ttcOut.status = "ok" =>
        [i \in 1..Len(ttcOut.out) |-> ttcOut.out[i].line] = LinesBy(ttcIn, StatedLine)

\* C8 amended: line is the leading token of digits followed by any word
\* characters of the direction title, else that of the route tag, else the
\* route tag itself, else the empty string
C8_LineIsTokenOrRouteTag ==
    ttcOut.status = "ok" =>
        [i \in 1..Len(ttcOut.out) |-> ttcOut.out[i].line] = LinesBy(ttcIn, AmendedLine)

\* neither the title nor the route tag starts with a token: line is the tag
C8_Witness ==
    /\ ttcOut.status = "ok"
    /\ Len(ttcOut.out) = 1
    /\ ttcIn.predictions.items[1].routeTag = Str(<<"b", "l", "u", "e">>)
    /\ ttcIn.predictions.items[1].direction.items[1].title = Str(<<"A", "5">>)
    /\ ttcOut.out[1].line = <<"b", "l", "u", "e">>

\* C9: every prediction of normalizeTtc and of normalizeTtcSubway has an
\* integer timeMinutes >= 0; a non-numeric minutes field yields 0
C9_MinutesNotNegative ==
    /\ ttcOut.status = "ok" =>
          \A i \in 1..Len(ttcOut.out) :
              ~ttcOut.out[i].timeMinutes.nan /\ ttcOut.out[i].timeMinutes.v >= 0
    /\ subOut.status = "ok" =>
          \A i \in 1..Len(subOut.out) :
              ~subOut.out[i].timeMinutes.nan /\ subOut.out[i].timeMinutes.v >= 0
    /\ (ttcOut.status = "ok" /\ Len(ttcOut.out) = 1) =>
          LET P == ttcIn.predictions.items
              D == P[1].direction.items
              E == D[1].prediction.items
          IN  (Len(P) = 1 /\ Len(D) = 1 /\ ~IntegerToken(E[1].minutes.s)) =>
                  ttcOut.out[1].timeMinutes = Num(0)

(***************************************************************************)
(* Properties of the stop store (Spec)                                     *)
(***************************************************************************)
\* the square of the planar distance between a returned stop and the query
PlanarSquare(r) ==
    (r.lat - query.lat) * (r.lat - query.lat) + (r.lon - query.lon) * (r.lon - query.lon)

\* C10: no stop returned by getStopsWithinRange has a planar distance
\* sqrt((stop.lat - lat)^2 + (stop.lon - lon)^2) greater than range, and
\* the distance field of every returned stop is that planar distance
C10_ResultsWithinRange ==
    call.op = "getStopsWithinRange" /\ results.status = "ok" =>
        \A i \in 1..Len(results.out) :
            /\ query.range >= 0
            /\ PlanarSquare(results.out[i]) <= query.range * query.range
            /\ results.out[i].distance = Sqrt(PlanarSquare(results.out[i]))
            /\ \E r \in stops :
                  /\ r.id = results.out[i].id
                  /\ r.lat = results.out[i].lat
                  /\ r.lon = results.out[i].lon

\* a query that returns a stop while a stored stop inside the bounding box
\* lies outside the disc and is left out
C10_Witness ==
    /\ call.op = "getStopsWithinRange"
    /\ results.status = "ok"
    /\ Len(results.out) >= 1
    /\ \E r \in stops :
          /\ r.lat >= query.lat - query.range /\ r.lat <= query.lat + query.range
          /\ r.lon >= query.lon - query.range /\ r.lon <= query.lon + query.range
          /\ (r.lat - query.lat) * (r.lat - query.lat)
                + (r.lon - query.lon) * (r.lon - query.lon) > query.range * query.range
          /\ \A i \in 1..Len(results.out) : results.out[i].id # r.id

\* C11: the list returned by getStopsWithinRange is sorted non-decreasing by
\* realDistance: a.realDistance <= b.realDistance for every adjacent pair
C11_SortedByRealDistance ==
    call.op = "getStopsWithinRange" /\ results.status = "ok" =>
        \A i \in 1..(Len(results.out) - 1) :
            results.out[i].realDistance.sqrtOf <= results.out[i + 1].realDistance.sqrtOf

\* a result of two stops that the lat index visits in the opposite order
C11_Witness ==
    /\ call.op = "getStopsWithinRange"
    /\ results.status = "ok"
    /\ \E i \in 1..(Len(results.out) - 1) :
          /\ results.out[i].realDistance.sqrtOf < results.out[i + 1].realDistance.sqrtOf
          /\ results.out[i].lat > results.out[i + 1].lat

\* the stored fields of a StopWithDistance, with its two distances
Essentials(x) ==
    [id |-> x.id, code |-> x.code, agency |-> x.agency, name |-> x.name,
     lat |-> x.lat, lon |-> x.lon, distance |-> x.distance,
     realDistance |-> x.realDistance]

\* C12: saveStops is an additive upsert by id: for every id handed to
\* saveStops (and not cleared since), getStop(id) returns the code, agency,
\* name, lat and lon of the stop most recently saved under that id, with
\* distance = 0 and realDistance = 0; stops of earlier batches stay
C12_GetStopReturnsLatestSaved ==
    call.op = "getStop" =>
        \A s \in saved :
            s.id = call.id =>
                /\ results.status = "ok"
                /\ Len(results.out) = 1
                /\ Essentials(results.out[1])
                      = [id |-> s.id, code |-> s.code, agency |-> s.agency,
                         name |-> s.name, lat |-> s.lat, lon |-> s.lon,
                         distance |-> Sqrt(0), realDistance |-> Sqrt(0)]

\* getStop returns the second version of TTC_1 while three other stops,
\* which take at least one more batch, are still stored
C12_Witness ==
    /\ call.op = "getStop"
    /\ call.id = "TTC_1"
    /\ Cardinality(saved) = 4
    /\ results.out # <<>>
    /\ results.out[1].lat = 0
    /\ results.out[1].realDistance = Sqrt(0)

RecordsOf(records, agency) == {r \in records : r.agency = agency}

\* C13: clearAgency(X) removes all and only the records of agency X:
\* afterwards getAgencyCount(X) = 0, and for every other agency Y the count
\* and the stored records are what they were before the call
C13_ClearAgencyFrame ==
    [][call'.op = "clearAgency" =>
          /\ AgencyCount(stops', call'.agency) = 0
          /\ \A Y \in AgencyID \ {call'.agency} :
                /\ AgencyCount(stops', Y) = AgencyCount(stops, Y)
                /\ RecordsOf(stops', Y) = RecordsOf(stops, Y)]_vars

\* clearAgency("ttc") has run and the records of two other agencies remain
C13_Witness ==
    /\ call.op = "clearAgency"
    /\ call.agency = "ttc"
    /\ AgencyCount(stops, "ttc") = 0
    /\ AgencyCount(stops, "go") = 2
    /\ AgencyCount(stops, "yrt") = 1

\* a lookup result that is the stored record r with both distances 0
IsRecord(x, r) ==
    Essentials(x) = [id |-> r.id, code |-> r.code, agency |-> r.agency,
                     name |-> r.name, lat |-> r.lat, lon |-> r.lon,
                     distance |-> Sqrt(0), realDistance |-> Sqrt(0)]

\* C16: getStopByCode(code, agency) returns one of the stored records that
\* have both that code and that agency, never a record of another agency
\* with the same code; when there is none it returns undefined, not an
\* error; getStop(id) of an id that is not stored returns undefined too
C16_LookupByCodeAndAgency ==
    /\ call.op = "getStopByCode" =>
          /\ results.status = "ok"
          /\ IF \E r \in stops : r.code = call.code /\ r.agency = call.agency
             THEN /\ Len(results.out) = 1
                  /\ \E r \in stops :
                        /\ r.code = call.code
                        /\ r.agency = call.agency
                        /\ IsRecord(results.out[1], r)
             ELSE results.out = <<>>
    /\ call.op = "getStop" /\ (\A r \in stops : r.id # call.id) =>
          results.status = "ok" /\ results.out = <<>>

\* the code index holds a record of another agency under the same code
\* ahead of the one that getStopByCode returns
C16_Witness ==
    /\ call.op = "getStopByCode"
    /\ results.out # <<>>
    /\ \E r \in stops :
          /\ r.code = call.code
          /\ r.agency # call.agency
          /\ IdRank(r.id) < IdRank(results.out[1].id)

RECURSIVE SumOfCounts(_, _)
SumOfCounts(records, agencies) ==
    IF agencies = {} THEN 0
    ELSE LET a == CHOOSE x \in agencies : TRUE
         IN  AgencyCount(records, a) + SumOfCounts(records, agencies \ {a})

StoredIds(records) == {r.id : r \in records}

\* a saveStops step whose only news is stop s, under an id that stood under
\* another agency before
Resaved(old, s) ==
    /\ call'.op = "saveStops"
    /\ old \in saved
    /\ s \in saved'
    /\ s.id = old.id
    /\ s.agency # old.agency
    /\ saved' \ {s} = saved \ {old}

\* C18: getSize equals the number of distinct stored ids and the sum of
\* getAgencyCount over the five AgencyID values; re-saving an id with a
\* different agency moves it (the old agency's count goes down by one, the
\* new one's up by one, the size stays); after clear() all of them are 0
C18_SizeAndAgencyCounts ==
    /\ [](/\ Size(stops) = Cardinality(StoredIds(stops))
          /\ Size(stops) = SumOfCounts(stops, AgencyID)
          /\ call.op = "getSize" => results = Returned(<<Cardinality(StoredIds(stops))>>)
          /\ call.op = "getAgencyCount" =>
                results = Returned(<<Cardinality(StoredIds(RecordsOf(stops, call.agency)))>>)
          /\ call.op = "clear" =>
                Size(stops) = 0 /\ \A a \in AgencyID : AgencyCount(stops, a) = 0)
    /\ [][\A old \in saved, s \in saved' :
             Resaved(old, s) =>
                /\ Size(stops') = Size(stops)
                /\ AgencyCount(stops', old.agency) = AgencyCount(stops, old.agency) - 1
                /\ AgencyCount(stops', s.agency) = AgencyCount(stops, s.agency) + 1]_vars

\* getAgencyCount("go") counts TTC_2, whose feed has moved it to GO, next to
\* GO_UN, while the size of the store is 3
C18_Witness ==
    /\ call.op = "getAgencyCount"
    /\ call.agency = "go"
    /\ results = Returned(<<2>>)
    /\ Size(stops) = 3
    /\ \E r \in stops : r.id = "TTC_2" /\ r.agency = "go"

\* the stored stops a query is about: planar distance at most range and,
\* when an agency filter is given, of that agency
Matching ==
    {r \in stops :
        /\ PlanarSquare(r) <= query.range * query.range
        /\ query.agencyFilter = UNDEF \/ r.agency = query.agencyFilter}

IsEntryOf(x, r) ==
    /\ x.id = r.id /\ x.code = r.code /\ x.agency = r.agency
    /\ x.name = r.name /\ x.lat = r.lat /\ x.lon = r.lon

\* C19: getStopsWithinRange is complete and respects the agency filter: for
\* range >= 0 the result has exactly one entry for every stored stop whose
\* planar distance is at most range and whose agency is the filter's (when
\* one is given) and no other entry; the call leaves the store unchanged
C19_CompleteAndFiltered ==
    /\ [](call.op = "getStopsWithinRange" /\ query.range >= 0 =>
             /\ results.status = "ok"
             /\ Len(results.out) = Cardinality(Matching)
             /\ \A r \in Matching :
                   \E i \in 1..Len(results.out) : IsEntryOf(results.out[i], r)
             /\ \A i \in 1..Len(results.out) :
                   \E r \in Matching : IsEntryOf(results.out[i], r))
    /\ [][call'.op = "getStopsWithinRange" => stops' = stops]_vars

\* a filtered query returns a stop at exactly the range, on the edge of the
\* lat interval, while a stop of another agency lies within range as well
C19_Witness ==
    /\ call.op = "getStopsWithinRange"
    /\ query.agencyFilter = "ttc"
    /\ query.range >= 1
    /\ results.status = "ok"
    /\ \E i \in 1..Len(results.out) :
          /\ PlanarSquare(results.out[i]) = query.range * query.range
          /\ results.out[i].lon = query.lon
    /\ \E r \in stops :
          /\ r.agency # "ttc"
          /\ PlanarSquare(r) <= query.range * query.range

(***************************************************************************)
(* Properties of the stop store under interleaved callers (SpecConc)       *)
(***************************************************************************)
\* C14: the connection is opened at most once: under every interleaving of
\* callers openDB is invoked exactly once as soon as any operation has been
\* called, and every operation awaits and uses the promise of that one open
C14_OpenedOnce ==
    /\ openCount <= 1
    /\ \A c \in Callers : pc[c] # "idle" => openCount = 1 /\ db[c] = 1

\* two first-time callers are both suspended on the open still in flight
C14_Witness ==
    /\ dbPromise = "pending"
    /\ openCount = 1
    /\ \A c \in Callers : pc[c] = "awaitDb" /\ db[c] = 1

\* C15: each saveStops batch and each clearAgency sweep is all-or-nothing:
\* the store that readers and other writers observe changes only at the
\* commit of an operation that got through all of its writes and awaits
\* tx.done, and then by all of them at once; a batch that fails part-way
\* leaves none of its stops persisted
C15_AllOrNothing ==
    [][stops' # stops =>
          /\ pc[tx.owner] = "awaitDone"
          /\ tx.job.op = "saveStops" => tx.todo = <<>>
          /\ tx.job.op = "clearAgency" => AgencyCount(tx.work, tx.job.agency) = 0
          /\ stops' = tx.work]_vars

\* C17: a connection failure is propagated and never retried: once openDB
\* has failed the rejected promise stays memoized and openDB is not called
\* again, no operation gets past its await getDb() or changes the store, and
\* every operation that awaits the connection, whether it was called before
\* or after the failure, fails to its caller
C17_FailureMemoized ==
    /\ [](dbPromise = "rejected" =>
             \A c \in Callers : pc[c] \in {"idle", "awaitDb", "failed"})
    /\ [][dbPromise = "rejected" =>
             /\ dbPromise' = "rejected"
             /\ openCount' = openCount
             /\ stops' = stops]_vars
    /\ \A c \in Callers :
          (dbPromise = "rejected" /\ pc[c] = "awaitDb") ~> (pc[c] = "failed")

\* after the failed open one operation has failed and its caller has
\* called again, while the other caller's operation has failed too
C17_Witness ==
    /\ dbPromise = "rejected"
    /\ openCount = 1
    /\ \E c \in Callers :
          /\ pc[c] = "awaitDb"
          /\ \A d \in Callers \ {c} : pc[d] = "failed"

====
